---- MODULE Spec2Model ----
(***************************************************************************)
(* Model of the Slack summarizer bot of src/src/index.ts: the two trigger  *)
(* handlers (app_mention, the !summarize message pattern), the fetch of    *)
(* the message window, the user lookups, the transcript construction, the  *)
(* model invocation and the reply.                                         *)
(*                                                                         *)
(* A JavaScript string is modelled as a sequence of chunks; a chunk is a   *)
(* literal piece of text ("--limit", " ", "5", "<@U1>").  The chunks are   *)
(* chosen so that no literal the code searches for straddles two chunks.   *)
(***************************************************************************)
EXTENDS Integers, Sequences, FiniteSets, TLC

----------------------------------------------------------------------------
(* Bounds of the model *)

\* longest text after the bot mention in a mention trigger, in chunks
MaxPromptLen == 4
\* longest text after the command word in a pattern trigger, in chunks
MaxCmdLen == 5
\* longest fetched message text, in chunks
MaxTextLen == 2
\* largest number of messages a fetch returns
MaxMsgs == 2
\* handler invocations that may be in flight
NumRuns == 2

Runs == 1..NumRuns

----------------------------------------------------------------------------
(* Literals of the program *)

Space == " "
Quote == "\""
BotMention == "<@U07AF4DJWRH>"
BotName == "summarizer"
CommandPrefix == "!summarize"
SummarizeWord == "summarize"
HelpOption == "--help"
VersionOption == "--version"
LimitOption == "--limit"
DefaultLimit == 10
UnknownName == "Unknown"
QuestionMarker == "@#*&Question: "
QuestionUser == "definetly not a bot"
ErrorSummary == "Error summarizing text."
NoSummary == "No summary found."
VersionText == "v1.0.0"
\* the usage text followed by the three options of the options table
HelpText == "Usage: @Summarizer [summarize|question] [options] ..."
SystemContent == "You are a helpful assistant. You will summarize the conversation using Korean only. ..."

\* the value of a JavaScript variable that holds undefined
Undefined == <<"undefined">>
\* thread_ts of an event outside a thread
NoThread == "undefined"

Digits == {"0", "5"}

DigitValue(c) == IF c = "5" THEN 5 ELSE 0

----------------------------------------------------------------------------
(* Strings *)

\* every sequence over alphabet of length at most n
RECURSIVE SeqsUpTo(_, _)
SeqsUpTo(alphabet, n) ==
  IF n = 0 THEN {<<>>}
  ELSE LET shorter == SeqsUpTo(alphabet, n - 1)
       IN shorter \cup {Append(s, c) : s \in {t \in shorter : Len(t) = n - 1}, c \in alphabet}

Range(s) == {s[i] : i \in 1..Len(s)}

\* s.substring(i - 1)
From(s, i) == SubSeq(s, i, Len(s))

\* s.startsWith(tok)
StartsWith(s, tok) == Len(s) > 0 /\ s[1] = tok

\* s.includes(tok)
Includes(s, tok) == tok \in Range(s)

\* s.indexOf(tok) + 1; 0 when tok does not occur
IndexOf(s, tok) ==
  IF Includes(s, tok) THEN CHOOSE i \in 1..Len(s) : s[i] = tok /\ \A j \in 1..(i - 1) : s[j] # tok
  ELSE 0

\* the number of leading whitespace chunks of s
RECURSIVE LeadingSpaces(_)
LeadingSpaces(s) ==
  IF Len(s) > 0 /\ s[1] = Space THEN 1 + LeadingSpaces(Tail(s)) ELSE 0

RECURSIVE TrimEnd(_)
TrimEnd(s) ==
  IF Len(s) > 0 /\ s[Len(s)] = Space THEN TrimEnd(SubSeq(s, 1, Len(s) - 1)) ELSE s

\* s.trim()
Trim(s) == TrimEnd(From(s, LeadingSpaces(s) + 1))

\* the longest prefix of s made of digits
RECURSIVE DigitPrefix(_)
DigitPrefix(s) ==
  IF Len(s) > 0 /\ s[1] \in Digits THEN <<s[1]>> \o DigitPrefix(Tail(s)) ELSE <<>>

\* the decimal value of a sequence of digits
RECURSIVE DecimalValue(_)
DecimalValue(ds) ==
  IF Len(ds) = 0 THEN 0 ELSE 10 * DecimalValue(SubSeq(ds, 1, Len(ds) - 1)) + DigitValue(ds[Len(ds)])

\* parseInt(s): leading whitespace is skipped, one sign is accepted, the longest
\* run of digits is read; NaN when there is no digit
ParseInt(s) ==
  LET t == From(s, LeadingSpaces(s) + 1)
      neg == Len(t) > 0 /\ t[1] = "-"
      ds == DigitPrefix(IF neg THEN Tail(t) ELSE t)
  IN IF Len(ds) = 0 THEN [nan |-> TRUE, val |-> 0]
     ELSE [nan |-> FALSE, val |-> IF neg THEN 0 - DecimalValue(ds) ELSE DecimalValue(ds)]

\* parseInt(s) || 10
LimitOrDefault(s) ==
  LET n == ParseInt(s) IN IF n.nan \/ n.val = 0 THEN DefaultLimit ELSE n.val

\* text.split(" ").slice(1).join(" "): the text after the first space
DropFirstWord(text) ==
  IF Includes(text, Space) THEN From(text, IndexOf(text, Space) + 1) ELSE <<>>

\* prompt.split("--limit"): parts[0] and parts[1]
LimitParts(prompt) ==
  LET i == IndexOf(prompt, LimitOption)
      rest == From(prompt, i + 1)
      j == IndexOf(rest, LimitOption)
  IN [before |-> SubSeq(prompt, 1, i - 1),
      after |-> IF j = 0 THEN rest ELSE SubSeq(rest, 1, j - 1)]

----------------------------------------------------------------------------
(* Command parsing *)

\* prompt.trim() === "--help", prompt.trim() === "--version"
IsOptionUntrimmed(prompt, option) == prompt = <<option>>

IsOption(prompt, option) == Trim(prompt) = <<option>>

\* a value the code tests with if (question): undefined and "" are falsy
TruthyDefined(question) == question # Undefined

Truthy(question) == question # Undefined /\ question # <<>>

\* parseInt(...) || 10 of both handlers
EffectiveLimitIgnored(limitString) == DefaultLimit

EffectiveLimit(limitString) == LimitOrDefault(limitString)

\* the question and the limit the app_mention handler passes on
MentionIntent(text) ==
  LET prompt0 == DropFirstWord(text)
      hasLimit == Includes(prompt0, LimitOption)
      parts == LimitParts(prompt0)
      prompt == IF hasLimit THEN parts.before ELSE prompt0
  IN [question |-> IF Trim(prompt) # <<SummarizeWord>> THEN prompt ELSE Undefined,
      limit |-> IF hasLimit THEN EffectiveLimit(parts.after) ELSE DefaultLimit]

\* s.lastIndexOf(tok) + 1; 0 when tok does not occur
LastIndexOf(s, tok) ==
  IF Includes(s, tok) THEN CHOOSE i \in 1..Len(s) : s[i] = tok /\ \A j \in (i + 1)..Len(s) : s[j] # tok
  ELSE 0

\* the match of /!summarize\s*(".*")?\s*([0-9]*)/ in text: the leftmost
\* occurrence of the command word, greedy whitespace, the quoted group from
\* its first quote to the last quote of the text, greedy whitespace, digits
CommandMatch(text) ==
  LET i == IndexOf(text, CommandPrefix)
      r1 == From(text, i + 1)
      r2 == From(r1, LeadingSpaces(r1) + 1)
      k == LastIndexOf(r2, Quote)
      quoted == Len(r2) > 0 /\ r2[1] = Quote /\ k > 1
      r3 == IF quoted THEN From(r2, k + 1) ELSE r2
      r4 == From(r3, LeadingSpaces(r3) + 1)
  IN [matched |-> i > 0,
      group1 |-> IF quoted THEN SubSeq(r2, 1, k) ELSE Undefined,
      group2 |-> DigitPrefix(r4)]

\* the question and the limit the message handler passes on
MessageIntent(text) ==
  LET m == CommandMatch(text)
  IN [question |-> m.group1, limit |-> EffectiveLimit(m.group2)]

----------------------------------------------------------------------------
(* The user map: a JavaScript Map, kept as its entries in insertion order *)

MapHas(m, k) == \E i \in 1..Len(m) : m[i].key = k

\* m.get(k); "" stands for undefined, both are falsy
MapGet(m, k) ==
  IF MapHas(m, k) THEN m[CHOOSE i \in 1..Len(m) : m[i].key = k].value ELSE ""

\* m.set(k, v): an existing key keeps its place
MapSet(m, k, v) ==
  IF MapHas(m, k) THEN [i \in 1..Len(m) |-> IF m[i].key = k THEN [key |-> k, value |-> v] ELSE m[i]]
  ELSE Append(m, [key |-> k, value |-> v])

\* the keys of the Map in insertion order
MapKeys(m) == [i \in 1..Len(m) |-> m[i].key]

\* Object.keys(usersMap): a Map has no own enumerable properties
ObjectKeys(m) == <<>>

\* name || "Unknown"
OrUnknown(name) == IF name = "" THEN UnknownName ELSE name

\* the mention token `<@${userId}>`
MentionOf(userId) == "<@" \o userId \o ">"

----------------------------------------------------------------------------
(* Transcript *)

\* text.replace(tok, rep) with a string pattern: the first occurrence only
ReplaceFirst(text, tok, rep) ==
  LET i == IndexOf(text, tok)
  IN IF i = 0 THEN text ELSE [j \in 1..Len(text) |-> IF j = i THEN rep ELSE text[j]]

\* the loop over the keys that rewrites chat.text
RECURSIVE RewriteWith(_, _, _)
RewriteWith(text, keys, usersMap) ==
  IF Len(keys) = 0 THEN text
  ELSE RewriteWith(ReplaceFirst(text, MentionOf(keys[1]), OrUnknown(MapGet(usersMap, keys[1]))),
                   Tail(keys), usersMap)

Rewrite(text, usersMap) == RewriteWith(text, ObjectKeys(usersMap), usersMap)

\* chat.text.startsWith("!summarize")
IsCommandExact(text) == text = <<CommandPrefix>>

IsCommand(text) == StartsWith(text, CommandPrefix)

\* the three continue statements of the loop
SkippedCommandsOnly(chat, usersMap) ==
  \/ IsCommand(chat.text)
  \/ StartsWith(chat.text, BotMention)

Skipped(chat, usersMap) ==
  \/ IsCommand(chat.text)
  \/ OrUnknown(MapGet(usersMap, chat.user)) = BotName
  \/ StartsWith(chat.text, BotMention)

\* the entry pushed for a chat that is not skipped
Entry(chat, usersMap) ==
  LET speaker == OrUnknown(MapGet(usersMap, chat.user))
  IN [role |-> "user", content |-> <<speaker, ": ">> \o Rewrite(chat.text, usersMap), user |-> speaker]

\* the chats after the loop: the text of a chat that is not skipped is rewritten in place
RewrittenChats(chats, usersMap) ==
  [i \in 1..Len(chats) |->
     IF Skipped(chats[i], usersMap) THEN chats[i]
     ELSE [chats[i] EXCEPT !.text = Rewrite(chats[i].text, usersMap)]]

\* the messages array after the loop
RECURSIVE Transcript(_, _)
Transcript(chats, usersMap) ==
  IF Len(chats) = 0 THEN <<>>
  ELSE (IF Skipped(chats[1], usersMap) THEN <<>> ELSE <<Entry(chats[1], usersMap)>>)
       \o Transcript(Tail(chats), usersMap)

\* systemPrompt(question); the entry has no user field in the code
SystemPrompt == [role |-> "system", content |-> <<SystemContent>>, user |-> ""]

QuestionEntry(question) ==
  [role |-> "user", content |-> <<QuestionMarker>> \o question, user |-> QuestionUser]

\* [systemPrmpt, ...messages] as sent to the model
PromptSequence(chats, usersMap, question) ==
  <<SystemPrompt>> \o Transcript(chats, usersMap)
    \o (IF Truthy(question) THEN <<QuestionEntry(question)>> ELSE <<>>)

----------------------------------------------------------------------------
(* State *)

VARIABLES
  pc,        \* per handler invocation: the await it is suspended at
  event,     \* the trigger event it was started with
  intent,    \* the question and limit passed to handleSummarizeRequest
  fetched,   \* the messages the platform returned, as returned
  chats,     \* the same message objects, whose text the loop rewrites in place
  cursor,    \* getUserMap: the position of the user being looked up
  usersMap,  \* getUserMap: the map built so far
  summary,   \* the text summarizeText returned
  calls      \* the calls made to the platform and the model, in order, with their results

vars == <<pc, event, intent, fetched, chats, cursor, usersMap, summary, calls>>

NoEvent == [kind |-> "none", text |-> <<>>, channel |-> "", thread_ts |-> NoThread]
NoIntent == [question |-> Undefined, limit |-> 0]

Init ==
  /\ pc = [r \in Runs |-> "idle"]
  /\ event = [r \in Runs |-> NoEvent]
  /\ intent = [r \in Runs |-> NoIntent]
  /\ fetched = [r \in Runs |-> <<>>]
  /\ chats = [r \in Runs |-> <<>>]
  /\ cursor = [r \in Runs |-> 0]
  /\ usersMap = [r \in Runs |-> <<>>]
  /\ summary = [r \in Runs |-> ""]
  /\ calls = [r \in Runs |-> <<>>]

Call(api, args) == [api |-> api, args |-> args, result |-> "pending"]

\* the calls of run r to one api
CallsTo(r, api) == SelectSeq(calls[r], LAMBDA c : c.api = api)

\* the last call of run r returns with result
ReturnedNever(r, result) == calls

ReturnedEverywhere(r, result) ==
  [q \in Runs |-> [i \in 1..Len(calls[q]) |->
     IF i = Len(calls[q]) THEN [calls[q][i] EXCEPT !.result = result] ELSE calls[q][i]]]

Returned(r, result) ==
  [calls EXCEPT ![r] = [i \in 1..Len(@) |-> IF i = Len(@) THEN [@[i] EXCEPT !.result = result] ELSE @[i]]]

----------------------------------------------------------------------------
(* The calls a handler suspends at *)

\* postMessage: chat.postMessage is called
PostCallUnthreaded(channel, text, threadTs) ==
  Call("chat.postMessage", [channel |-> channel, text |-> text, thread_ts |-> NoThread])

PostCall(channel, text, threadTs) ==
  Call("chat.postMessage", [channel |-> channel, text |-> text, thread_ts |-> threadTs])

\* fetchRecentMessages: replies of the thread when there is one, else the history
FetchCall(channel, limit, threadTs) ==
  IF threadTs # NoThread
  THEN Call("conversations.replies", [channel |-> channel, ts |-> threadTs, limit |-> limit])
  ELSE Call("conversations.history", [channel |-> channel, ts |-> NoThread, limit |-> limit])

UsersInfoCall(user) == Call("users.info", [user |-> user])

CompletionCall(messages) == Call("chat.completions.create", [messages |-> messages])

IsFetch(c) == c.api \in {"conversations.replies", "conversations.history"}

\* messages.length > 0
HasMessagesOrNone(messages) == Len(messages) >= 0

HasMessages(messages) == Len(messages) > 0

\* the catch of summarizeText, and chatCompletion.choices[0].message.content || "No summary found."
CompletionTextLoose(outcome) ==
  IF outcome \in {"throw", "nocontent"} THEN NoSummary ELSE outcome

CompletionText(outcome) ==
  CASE outcome = "throw" -> ErrorSummary
    [] outcome = "nocontent" -> NoSummary
    [] OTHER -> outcome

----------------------------------------------------------------------------
(* Handlers *)

\* app.event("app_mention"), up to its first await
AppMention(r, text, channel, thread_ts) ==
  LET prompt == DropFirstWord(text)
      parsed == MentionIntent(text)
  IN /\ pc[r] = "idle"
     /\ Includes(text, BotMention)
     /\ event' = [event EXCEPT ![r] = [kind |-> "mention", text |-> text, channel |-> channel, thread_ts |-> thread_ts]]
     /\ IF IsOption(prompt, HelpOption)
        THEN /\ calls' = [calls EXCEPT ![r] = Append(@, PostCall(channel, HelpText, thread_ts))]
             /\ pc' = [pc EXCEPT ![r] = "post"]
             /\ UNCHANGED intent
        ELSE IF IsOption(prompt, VersionOption)
        THEN /\ calls' = [calls EXCEPT ![r] = Append(@, PostCall(channel, VersionText, thread_ts))]
             /\ pc' = [pc EXCEPT ![r] = "post"]
             /\ UNCHANGED intent
        ELSE /\ intent' = [intent EXCEPT ![r] = parsed]
             /\ calls' = [calls EXCEPT ![r] = Append(@, FetchCall(channel, parsed.limit, thread_ts))]
             /\ pc' = [pc EXCEPT ![r] = "fetch"]
     /\ UNCHANGED <<fetched, chats, cursor, usersMap, summary>>

\* app.message(/!summarize.../), up to its first await
Message(r, text, channel, thread_ts) ==
  LET parsed == MessageIntent(text)
  IN /\ pc[r] = "idle"
     /\ CommandMatch(text).matched
     /\ event' = [event EXCEPT ![r] = [kind |-> "message", text |-> text, channel |-> channel, thread_ts |-> thread_ts]]
     /\ intent' = [intent EXCEPT ![r] = parsed]
     /\ calls' = [calls EXCEPT ![r] = Append(@, FetchCall(channel, parsed.limit, thread_ts))]
     /\ pc' = [pc EXCEPT ![r] = "fetch"]
     /\ UNCHANGED <<fetched, chats, cursor, usersMap, summary>>

\* the completion is requested with the transcript of the chats
Summarize(r, messages, map, returned) ==
  /\ chats' = [chats EXCEPT ![r] = RewrittenChats(messages, map)]
  /\ calls' = [returned EXCEPT ![r] = Append(@, CompletionCall(PromptSequence(messages, map, intent[r].question)))]
  /\ pc' = [pc EXCEPT ![r] = "llm"]

\* summarizeText returned text: postMessage is called with it
Reply(r, text, returned) ==
  /\ summary' = [summary EXCEPT ![r] = text]
  /\ calls' = [returned EXCEPT ![r] = Append(@, PostCall(event[r].channel, text, event[r].thread_ts))]
  /\ pc' = [pc EXCEPT ![r] = "post"]

\* what a fetch can come back with: a failure, a result without messages,
\* or a result with the messages of window
FetchThrows == [status |-> "throw", messages |-> <<>>]
FetchNothing == [status |-> "nomessages", messages |-> <<>>]
FetchOk(window) == [status |-> "ok", messages |-> window]

\* the fetch returns: handleSummarizeRequest goes on to summarizeText
FetchReturns(r, outcome) ==
  LET messages == IF outcome.status = "ok" THEN outcome.messages ELSE <<>>
      returned == Returned(r, IF outcome.status = "throw" THEN "throw" ELSE "ok")
  IN /\ pc[r] = "fetch"
     /\ fetched' = [fetched EXCEPT ![r] = messages]
     /\ IF ~HasMessages(messages)
        THEN /\ pc' = [pc EXCEPT ![r] = "done"]
             /\ calls' = returned
             /\ UNCHANGED <<chats, cursor>>
        ELSE IF Len(messages) = 0
        THEN /\ Summarize(r, messages, <<>>, returned)
             /\ UNCHANGED cursor
        ELSE /\ chats' = [chats EXCEPT ![r] = messages]
             /\ cursor' = [cursor EXCEPT ![r] = 1]
             /\ calls' = [returned EXCEPT ![r] = Append(@, UsersInfoCall(messages[1].user))]
             /\ pc' = [pc EXCEPT ![r] = "users"]
     /\ UNCHANGED <<event, intent, usersMap, summary>>

\* users.info returns (outcome: "throw", or the name, "" when there is none)
UsersInfoReturnsEscapes(r, outcome) ==
  LET map == MapSet(usersMap[r], chats[r][cursor[r]].user, OrUnknown(outcome))
      returned == Returned(r, IF outcome = "throw" THEN "throw" ELSE "ok")
  IN /\ pc[r] = "users"
     /\ IF outcome = "throw"
        THEN /\ calls' = returned
             /\ pc' = [pc EXCEPT ![r] = "escaped"]
             /\ UNCHANGED <<chats, cursor, usersMap, summary>>
        ELSE /\ usersMap' = [usersMap EXCEPT ![r] = map]
             /\ cursor' = [cursor EXCEPT ![r] = @ + 1]
             /\ UNCHANGED summary
             /\ IF cursor[r] < Len(chats[r])
                THEN /\ calls' = [returned EXCEPT ![r] = Append(@, UsersInfoCall(chats[r][cursor[r] + 1].user))]
                     /\ UNCHANGED <<pc, chats>>
                ELSE Summarize(r, chats[r], map, returned)
     /\ UNCHANGED <<event, intent, fetched>>

UsersInfoReturns(r, outcome) ==
  LET map == MapSet(usersMap[r], chats[r][cursor[r]].user, OrUnknown(outcome))
      returned == Returned(r, IF outcome = "throw" THEN "throw" ELSE "ok")
  IN /\ pc[r] = "users"
     /\ IF outcome = "throw"
        THEN /\ Reply(r, ErrorSummary, returned)
             /\ UNCHANGED <<chats, cursor, usersMap>>
        ELSE /\ usersMap' = [usersMap EXCEPT ![r] = map]
             /\ cursor' = [cursor EXCEPT ![r] = @ + 1]
             /\ UNCHANGED summary
             /\ IF cursor[r] < Len(chats[r])
                THEN /\ calls' = [returned EXCEPT ![r] = Append(@, UsersInfoCall(chats[r][cursor[r] + 1].user))]
                     /\ UNCHANGED <<pc, chats>>
                ELSE Summarize(r, chats[r], map, returned)
     /\ UNCHANGED <<event, intent, fetched>>

\* the completion returns (outcome: "throw", "nocontent", or the content, which
\* is kept as the result of the call)
CompletionReturns(r, outcome) ==
  /\ pc[r] = "llm"
  /\ Reply(r, CompletionText(outcome), Returned(r, outcome))
  /\ UNCHANGED <<event, intent, fetched, chats, cursor, usersMap>>

\* chat.postMessage returns (outcome: "ok" or "throw"); the handler ends
PostReturnsRetry(r, outcome) ==
  /\ pc[r] = "post"
  /\ IF outcome = "throw"
     THEN /\ calls' = [Returned(r, outcome) EXCEPT ![r] = Append(@, [calls[r][Len(calls[r])] EXCEPT !.result = "pending"])]
          /\ UNCHANGED pc
     ELSE /\ calls' = Returned(r, outcome)
          /\ pc' = [pc EXCEPT ![r] = "done"]
  /\ UNCHANGED <<event, intent, fetched, chats, cursor, usersMap, summary>>

PostReturnsSerial(r, outcome) ==
  /\ pc[r] = "post"
  /\ \A q \in Runs \ {r} : pc[q] \in {"idle", "done"}
  /\ calls' = Returned(r, outcome)
  /\ pc' = [pc EXCEPT ![r] = "done"]
  /\ UNCHANGED <<event, intent, fetched, chats, cursor, usersMap, summary>>

PostReturns(r, outcome) ==
  /\ pc[r] = "post"
  /\ calls' = Returned(r, outcome)
  /\ pc' = [pc EXCEPT ![r] = "done"]
  /\ UNCHANGED <<event, intent, fetched, chats, cursor, usersMap, summary>>

----------------------------------------------------------------------------
(* Inputs *)

BotId == "U07AF4DJWRH"
ModelOutput == "a summary"

\* the invocation the single-run specifications follow
Solo == {r \in Runs : \A q \in Runs : r <= q}

\* mention triggers: the text holds the bot mention, here followed by any prompt
PromptChunks == {Space, LimitOption, HelpOption, VersionOption, SummarizeWord, "q", "5", "0", "-"}
MentionLeads == {<<>>, <<"q", Space>>}
MentionTexts ==
  {lead \o <<BotMention>> \o rest : lead \in MentionLeads, rest \in SeqsUpTo(PromptChunks, MaxPromptLen)}

\* pattern triggers: the text holds the command word, here followed by any text
CommandChunks == {Space, Quote, "q", "5", "0"}
CommandLeads == {<<>>, <<"q">>}
CommandTexts ==
  {lead \o <<CommandPrefix>> \o rest : lead \in CommandLeads, rest \in SeqsUpTo(CommandChunks, MaxCmdLen)}

\* fetched messages
TextChunks == {CommandPrefix, BotMention, MentionOf("U1"), "hi"}
Authors == {"U1", BotId}
Messages ==
  {[text |-> t, user |-> u] : t \in SeqsUpTo(TextChunks, MaxTextLen) \ {<<>>}, u \in Authors}
\* the windows of the transcript specification: any message, after up to
\* MaxMsgs - 1 messages of ContextMessages
ContextMessages == {[text |-> <<"hi">>, user |-> u] : u \in Authors}
Windows ==
  {<<>>} \cup {context \o <<m>> : context \in SeqsUpTo(ContextMessages, MaxMsgs - 1), m \in Messages}

\* the windows of the main specification
MainMessages ==
  {[text |-> <<"hi">>, user |-> "U1"],
   [text |-> <<CommandPrefix, "hi">>, user |-> "U1"],
   [text |-> <<MentionOf("U1"), "hi">>, user |-> BotId]}
MainWindows == SeqsUpTo(MainMessages, MaxMsgs)

\* the names users.info can return; "" when the user has none
Names == {"alice", BotName, ""}

Plain == [text |-> <<"hi">>, user |-> "U1"]

----------------------------------------------------------------------------
(* Specifications *)

\* Spec: some triggers of each kind, small windows, every outcome of every call
MainMentionTexts ==
  {<<BotMention, Space, SummarizeWord>>, <<BotMention, Space, "q">>,
   <<BotMention, Space, HelpOption>>, <<BotMention, Space, VersionOption>>}
MainCommandTexts == {<<CommandPrefix>>, <<CommandPrefix, Space, Quote, "q", Quote>>}
Channels == {"C1", "C2"}
Threads == {NoThread, "t1"}

\* an awaited call of run r comes back, with any of its outcomes
MainReturns(r) ==
  \/ pc[r] = "fetch" /\ \E outcome \in {FetchThrows, FetchNothing} \cup {FetchOk(w) : w \in MainWindows} :
       FetchReturns(r, outcome)
  \/ \E outcome \in {"throw"} \cup Names : UsersInfoReturns(r, outcome)
  \/ \E outcome \in {"throw", "nocontent", ModelOutput} : CompletionReturns(r, outcome)
  \/ \E outcome \in {"ok", "throw"} : PostReturns(r, outcome)

Next ==
  \E r \in Solo :
    \/ pc[r] = "idle" /\ \E text \in MainMentionTexts, channel \in Channels, thread_ts \in Threads :
         AppMention(r, text, channel, thread_ts)
    \/ pc[r] = "idle" /\ \E text \in MainCommandTexts, channel \in Channels, thread_ts \in Threads :
         Message(r, text, channel, thread_ts)
    \/ MainReturns(r)

Spec == Init /\ [][Next]_vars

\* SpecLive: Spec where every awaited call eventually returns or fails
SpecLive == Spec /\ \A r \in Solo : WF_vars(MainReturns(r))

\* SpecParse: every trigger text, one message window that ends with the
\* message that triggered the run, calls that succeed
TriggerMessage(r) == [text |-> event[r].text, user |-> "U1"]

NextParse ==
  \E r \in Solo :
    \/ pc[r] = "idle" /\ \E text \in MentionTexts : AppMention(r, text, "C1", NoThread)
    \/ pc[r] = "idle" /\ \E text \in CommandTexts : Message(r, text, "C1", NoThread)
    \/ \E outcome \in {FetchNothing, FetchOk(<<Plain, TriggerMessage(r)>>)} : FetchReturns(r, outcome)
    \/ UsersInfoReturns(r, "alice")
    \/ CompletionReturns(r, ModelOutput)
    \/ PostReturns(r, "ok")

SpecParse == Init /\ [][NextParse]_vars

\* SpecTranscript: one summarize and one question trigger, every message window,
\* every name, calls that succeed
TranscriptTriggers == {<<BotMention, Space, SummarizeWord>>, <<BotMention, Space, "q">>}

NextTranscript ==
  \E r \in Solo :
    \/ \E text \in TranscriptTriggers : AppMention(r, text, "C1", NoThread)
    \/ pc[r] = "fetch" /\ \E window \in Windows : FetchReturns(r, FetchOk(window))
    \/ \E name \in Names : UsersInfoReturns(r, name)
    \/ CompletionReturns(r, ModelOutput)
    \/ PostReturns(r, "ok")

SpecTranscript == Init /\ [][NextTranscript]_vars

\* SpecConc: every handler invocation, started at any time: the handlers are
\* async functions, each runs up to its next await and the event loop then
\* takes any other invocation whose awaited call has returned
ConcMentionTexts == {<<BotMention, Space, SummarizeWord>>, <<BotMention, Space, HelpOption>>}
ConcCommandTexts == {<<CommandPrefix>>}

ConcStarts(r) ==
  \/ pc[r] = "idle" /\ \E text \in ConcMentionTexts : AppMention(r, text, "C1", NoThread)
  \/ pc[r] = "idle" /\ \E text \in ConcCommandTexts : Message(r, text, "C1", NoThread)

ConcReturns(r) ==
  \/ \E outcome \in {FetchThrows, FetchOk(<<Plain>>)} : FetchReturns(r, outcome)
  \/ \E outcome \in {"throw", "alice"} : UsersInfoReturns(r, outcome)
  \/ \E outcome \in {"throw", ModelOutput} : CompletionReturns(r, outcome)
  \/ \E outcome \in {"ok", "throw"} : PostReturns(r, outcome)

NextConc == \E r \in Runs : ConcStarts(r) \/ ConcReturns(r)

SpecConc == Init /\ [][NextConc]_vars

\* SpecHang: as SpecConc, where the calls of the first invocation may never
\* return and every call of the other invocations returns or fails
SpecHang == SpecConc /\ \A r \in Runs \ Solo : WF_vars(ConcReturns(r))

----------------------------------------------------------------------------
(* Properties *)

IsPost(c) == c.api = "chat.postMessage"
IsCompletion(c) == c.api = "chat.completions.create"
IsLookup(c) == c.api = "users.info"

FetchCalls(r) == SelectSeq(calls[r], IsFetch)
PostCalls(r) == SelectSeq(calls[r], IsPost)
CompletionCalls(r) == SelectSeq(calls[r], IsCompletion)
LookupCalls(r) == SelectSeq(calls[r], IsLookup)

\* the fetch of run r has returned
FetchReturned(r) == Len(FetchCalls(r)) > 0 /\ FetchCalls(r)[1].result # "pending"

\* the entries of a completion call that come from fetched messages
SentTranscript(c) == SelectSeq(Tail(c.args.messages), LAMBDA e : e.user # QuestionUser)

\* the prompt of a mention trigger: the text after the mention token and its space
PromptOf(r) == DropFirstWord(event[r].text)

\* C1: a mention trigger whose text after the mention token, trimmed, is --help
\* or --version makes exactly one call, a post of the help text or of the
\* version string: no fetch, no user lookup, no completion.
C1_OptionRepliesOnce ==
  \A r \in Runs :
    (event[r].kind = "mention" /\ Trim(PromptOf(r)) \in {<<HelpOption>>, <<VersionOption>>})
      => /\ pc[r] \in {"post", "done"}
         /\ Len(calls[r]) = 1
         /\ IsPost(calls[r][1])
         /\ calls[r][1].args.text = (IF Trim(PromptOf(r)) = <<HelpOption>> THEN HelpText ELSE VersionText)
         /\ calls[r][1].args.channel = event[r].channel

C1_Witness ==
  \E r \in Runs :
    /\ event[r].kind = "mention"
    /\ Trim(PromptOf(r)) = <<VersionOption>>
    /\ PromptOf(r) # <<VersionOption>>
    /\ pc[r] = "done"
    /\ Len(PostCalls(r)) = 1

\* C2: when the fetch came back with no message (an empty result, a result
\* without messages, or a failed call), the run has ended and the fetch is
\* the only call it made: no post, no completion.
C2_EmptyFetchEndsSilently ==
  \A r \in Runs :
    (FetchReturned(r) /\ Len(fetched[r]) = 0)
      => /\ pc[r] = "done"
         /\ Len(calls[r]) = 1
         /\ Len(PostCalls(r)) = 0
         /\ Len(CompletionCalls(r)) = 0

C2_Witness ==
  \E r \in Runs :
    /\ FetchReturned(r)
    /\ FetchCalls(r)[1].result = "throw"
    /\ Len(fetched[r]) = 0
    /\ pc[r] = "done"

\* C3: when the completion call of a run failed, the run posts exactly once,
\* the text posted is "Error summarizing text.", and the run goes on to its end.
C3_FailedCompletionPostsError ==
  \A r \in Runs :
    (Len(CompletionCalls(r)) > 0 /\ CompletionCalls(r)[1].result = "throw")
      => /\ Len(fetched[r]) >= 1
         /\ pc[r] \in {"post", "done"}
         /\ Len(PostCalls(r)) = 1
         /\ PostCalls(r)[1].args.text = ErrorSummary
         /\ summary[r] = ErrorSummary

C3_Witness ==
  \E r \in Runs :
    /\ Len(CompletionCalls(r)) > 0
    /\ CompletionCalls(r)[1].result = "throw"
    /\ Len(PostCalls(r)) = 1
    /\ pc[r] = "done"

\* C4: the limit of every fetch call is a positive integer.
C4_LimitPositive ==
  \A r \in Runs : \A i \in 1..Len(calls[r]) :
    IsFetch(calls[r][i]) => calls[r][i].args.limit >= 1

\* the limit string of a trigger: the text after the first --limit of a mention
\* prompt, the trailing digits of a pattern trigger; Undefined when absent
LimitString(e) ==
  IF e.kind = "mention"
  THEN LET prompt == DropFirstWord(e.text)
       IN IF Includes(prompt, LimitOption) THEN From(prompt, IndexOf(prompt, LimitOption) + 1) ELSE Undefined
  ELSE LET digits == CommandMatch(e.text).group2
       IN IF Len(digits) = 0 THEN Undefined ELSE digits

\* C5: when the limit string is absent or is not an integer the fetch is called
\* with limit 10; when it is a positive integer N the fetch is called with N.
C5_LimitDefaultOrGiven ==
  \A r \in Runs :
    Len(FetchCalls(r)) > 0 =>
      LET ls == LimitString(event[r])
          n == ParseInt(ls)
          limit == FetchCalls(r)[1].args.limit
      IN /\ (ls = Undefined \/ n.nan) => limit = 10
         /\ (ls # Undefined /\ ~n.nan /\ n.val > 0) => limit = n.val

C5_Witness ==
  \E r \in Runs :
    /\ event[r].kind = "mention"
    /\ LimitString(event[r]) # Undefined
    /\ ~ParseInt(LimitString(event[r])).nan
    /\ ParseInt(LimitString(event[r])).val = 50
    /\ Len(FetchCalls(r)) > 0
    /\ FetchCalls(r)[1].args.limit = 50

\* a fetched message appears as entry e: the entry's content is a speaker
\* name, the separator and the text of the message
AppearsAs(m, e) == Len(e.content) >= 2 /\ e.content[2] = ": " /\ From(e.content, 3) = m.text

\* C6: no fetched message whose text begins with !summarize appears as an
\* entry of the transcript sent to the model.
C6_CommandMessagesLeftOut ==
  \A r \in Runs : \A i \in 1..Len(CompletionCalls(r)) :
    LET sent == SentTranscript(CompletionCalls(r)[i])
    IN \A j \in 1..Len(fetched[r]) :
         StartsWith(fetched[r][j].text, CommandPrefix)
           => \A k \in 1..Len(sent) : ~AppearsAs(fetched[r][j], sent[k])

C6_Witness ==
  \E r \in Runs :
    /\ Len(CompletionCalls(r)) = 1
    /\ Len(fetched[r]) = 2
    /\ fetched[r][2].text = <<CommandPrefix, "hi">>
    /\ Len(SentTranscript(CompletionCalls(r)[1])) = 1

\* C7: in every entry of the transcript sent to the model no mention token
\* <@id> of an author id of the user map remains.
C7_MentionsOfAuthorsReplaced ==
  \A r \in Runs : \A i \in 1..Len(CompletionCalls(r)) :
    LET sent == SentTranscript(CompletionCalls(r)[i])
    IN \A k \in 1..Len(sent) : \A j \in 1..Len(usersMap[r]) :
         ~Includes(sent[k].content, MentionOf(usersMap[r][j].key))

\* C8: building the prompt sequence again, from the message texts as the first
\* construction left them (rewritten), gives the sequence that was sent.
C8_RewriteIdempotent ==
  \A r \in Runs : \A i \in 1..Len(CompletionCalls(r)) :
    PromptSequence(chats[r], usersMap[r], intent[r].question) = CompletionCalls(r)[i].args.messages

C8_Witness ==
  \E r \in Runs :
    /\ Len(CompletionCalls(r)) = 1
    /\ \E j \in 1..Len(fetched[r]) :
         /\ fetched[r][j].text = <<MentionOf("U1"), MentionOf("U1")>>
         /\ MapHas(usersMap[r], "U1")
         /\ \E k \in 1..Len(SentTranscript(CompletionCalls(r)[1])) :
              AppearsAs(chats[r][j], SentTranscript(CompletionCalls(r)[1])[k])

\* the pattern trigger !summarize "q" n: the command word, a quoted question
\* (not empty, without quotes inside), an integer n >= 1, separated by optional spaces
QuotedCommand(text) ==
  LET r1 == Tail(text)
      r2 == From(r1, LeadingSpaces(r1) + 1)
      k == IndexOf(Tail(r2), Quote) + 1
      r3 == From(r2, k + 1)
      r4 == From(r3, LeadingSpaces(r3) + 1)
  IN IF /\ StartsWith(text, CommandPrefix)
        /\ StartsWith(r2, Quote)
        /\ k > 2
        /\ Len(r4) > 0
        /\ Range(r4) \subseteq Digits
        /\ DecimalValue(r4) >= 1
     THEN [ok |-> TRUE, q |-> SubSeq(r2, 2, k - 1), n |-> DecimalValue(r4)]
     ELSE [ok |-> FALSE, q |-> <<>>, n |-> 0]

\* C9: for the pattern trigger !summarize "q" n the fetch is called with limit n
\* and the last entry sent to the model is the question marker followed by
\* exactly q, the text between the quotes.
C9_QuotedQuestionUnquoted ==
  \A r \in Runs :
    (event[r].kind = "message" /\ QuotedCommand(event[r].text).ok)
      => /\ FetchCalls(r)[1].args.limit = QuotedCommand(event[r].text).n
         /\ \A i \in 1..Len(CompletionCalls(r)) :
              LET sent == CompletionCalls(r)[i].args.messages
              IN sent[Len(sent)].content = <<QuestionMarker>> \o QuotedCommand(event[r].text).q

\* the mention trigger whose text is the mention token, a space and only
\* --limit N, N an integer >= 1
LimitOnly(text) ==
  LET prompt == DropFirstWord(text)
      digits == Trim(Tail(prompt))
  IN IF /\ StartsWith(text, BotMention)
        /\ Len(text) >= 2 /\ text[2] = Space
        /\ StartsWith(prompt, LimitOption)
        /\ Len(digits) > 0
        /\ Range(digits) \subseteq Digits
        /\ DecimalValue(digits) >= 1
     THEN [ok |-> TRUE, n |-> DecimalValue(digits)]
     ELSE [ok |-> FALSE, n |-> 0]

AllCallsSucceeded(r) == \A i \in 1..Len(calls[r]) : calls[r][i].result # "throw"

\* the name the user map of run r gives the author of a message
SpeakerOf(r, m) == OrUnknown(MapGet(usersMap[r], m.user))

\* a message the transcript leaves out: command-prefixed, bot-named speaker,
\* or starting with the bot's mention token
Filtered(r, m) ==
  \/ StartsWith(m.text, CommandPrefix)
  \/ SpeakerOf(r, m) = BotName
  \/ StartsWith(m.text, BotMention)

\* C11: a summarize trigger, n >= 1 fetched messages none of which is filtered,
\* every call succeeding: the model is invoked once, with the system prompt and
\* then one entry per fetched message, in order, each content starting with
\* the speaker's resolved name; once the model has answered, the one post
\* carries the model's text, the trigger's channel and the trigger's thread.
C11_SummarizeScenario ==
  \A r \in Runs :
    (/\ Len(CompletionCalls(r)) > 0
     /\ ~Truthy(intent[r].question)
     /\ AllCallsSucceeded(r)
     /\ \A j \in 1..Len(fetched[r]) : ~Filtered(r, fetched[r][j]))
      => LET sent == CompletionCalls(r)[1].args.messages
             n == Len(fetched[r])
         IN /\ n >= 1
            /\ Len(CompletionCalls(r)) = 1
            /\ Len(sent) = n + 1
            /\ sent[1] = SystemPrompt
            /\ \A j \in 1..n :
                 /\ sent[j + 1].role = "user"
                 /\ sent[j + 1].user = SpeakerOf(r, fetched[r][j])
                 /\ sent[j + 1].content[1] = SpeakerOf(r, fetched[r][j])
                 /\ sent[j + 1].content[2] = ": "
                 /\ From(sent[j + 1].content, 3) = chats[r][j].text
            /\ CompletionCalls(r)[1].result = ModelOutput =>
                 /\ Len(PostCalls(r)) = 1
                 /\ PostCalls(r)[1].args.text = ModelOutput
                 /\ PostCalls(r)[1].args.channel = event[r].channel
                 /\ PostCalls(r)[1].args.thread_ts = event[r].thread_ts

C11_Witness ==
  \E r \in Runs :
    /\ pc[r] = "done"
    /\ ~Truthy(intent[r].question)
    /\ AllCallsSucceeded(r)
    /\ Len(fetched[r]) = 2
    /\ fetched[r][1].user # fetched[r][2].user
    /\ \A j \in 1..Len(fetched[r]) : ~Filtered(r, fetched[r][j])
    /\ Len(CompletionCalls(r)) = 1
    /\ Len(CompletionCalls(r)[1].args.messages) = 3
    /\ Len(PostCalls(r)) = 1
    /\ PostCalls(r)[1].args.text = ModelOutput
    /\ PostCalls(r)[1].args.thread_ts = "t1"

\* the stage of a call: fetch, resolve, summarize, respond
StageOf(c) ==
  IF IsFetch(c) THEN 1 ELSE IF IsLookup(c) THEN 2 ELSE IF IsCompletion(c) THEN 3 ELSE 4

\* C12: the calls of a run are made in the order fetch, user lookups, model
\* invocation, post; a call is made only when every earlier call of the run has
\* returned or failed, and the model is invoked only after one lookup per
\* fetched message has returned.
C12_StagesInOrder ==
  \A r \in Runs :
    /\ \A i \in 1..Len(calls[r]) : \A j \in 1..Len(calls[r]) :
         i < j => /\ StageOf(calls[r][i]) <= StageOf(calls[r][j])
                  /\ calls[r][i].result # "pending"
    /\ Len(CompletionCalls(r)) > 0 =>
         /\ Len(LookupCalls(r)) = Len(fetched[r])
         /\ \A i \in 1..Len(LookupCalls(r)) : LookupCalls(r)[i].result = "ok"
    /\ Len(LookupCalls(r)) > 0 => FetchCalls(r)[1].result = "ok"

C12_Witness ==
  \E r \in Runs :
    /\ pc[r] = "done"
    /\ Len(FetchCalls(r)) = 1
    /\ Len(LookupCalls(r)) = 2
    /\ Len(CompletionCalls(r)) = 1
    /\ Len(PostCalls(r)) = 1

\* run r is between its start and its end
InFlight(r) == pc[r] \in {"fetch", "users", "llm", "post"}

\* C13: while a call of the first run never returns, every other run that has
\* started, and whose own calls return or fail, reaches its end.
C13_HangStallsOneRun ==
  \A q \in Runs \ Solo : (pc[q] # "idle") ~> (pc[q] = "done")

C13_Witness ==
  \E p \in Solo : \E q \in Runs \ Solo :
    /\ pc[p] = "fetch"
    /\ pc[q] = "done"
    /\ Len(PostCalls(q)) = 1

\* C17 as stated: at no time are two runs both between their start and their end.
C17_OneRunAtATime ==
  \A p \in Runs : \A q \in Runs : (p # q /\ InFlight(p)) => ~InFlight(q)

\* everything run r holds
RunState(r) ==
  <<pc[r], event[r], intent[r], fetched[r], chats[r], cursor[r], usersMap[r], summary[r], calls[r]>>

\* C17 as amended: every trigger event is handled independently of the others,
\* from its start to its end; runs may be in flight together, and a step that
\* changes one run changes nothing of any other run.
C17_RunsIndependent ==
  [][\A p \in Runs : \A q \in Runs :
       (p # q /\ RunState(p)' # RunState(p)) => RunState(q)' = RunState(q)]_vars

C17_Witness ==
  \E p \in Runs : \E q \in Runs :
    /\ p # q
    /\ pc[p] = "llm"
    /\ pc[q] = "users"

\* C14: when the lookup of an author failed, the user map gives that author
\* the name "Unknown", and once the lookups are over the map covers every
\* author of the window and the model has been invoked.
C14_FailedLookupFallsBack ==
  \A r \in Runs : \A i \in 1..Len(LookupCalls(r)) :
    LookupCalls(r)[i].result = "throw"
      => /\ MapGet(usersMap[r], LookupCalls(r)[i].args.user) = UnknownName
         /\ pc[r] \in {"llm", "post", "done"} =>
              /\ \A j \in 1..Len(fetched[r]) : MapHas(usersMap[r], fetched[r][j].user)
              /\ Len(CompletionCalls(r)) = 1

\* C16: no message authored by the bot's own identity appears as an entry of
\* the transcript sent to the model, whatever name the lookup gave the bot.
C16_BotMessagesLeftOut ==
  \A r \in Runs : \A i \in 1..Len(CompletionCalls(r)) :
    LET sent == SentTranscript(CompletionCalls(r)[i])
    IN \A j \in 1..Len(fetched[r]) :
         fetched[r][j].user = BotId
           => \A k \in 1..Len(sent) :
                ~(AppearsAs(fetched[r][j], sent[k]) /\ sent[k].user = SpeakerOf(r, fetched[r][j]))

\* C18: a run posts at most once and makes no call of any stage again; when
\* the post failed, the run has ended with that one post.
C18_NoRetry ==
  \A r \in Runs :
    /\ Len(PostCalls(r)) <= 1
    /\ Len(FetchCalls(r)) <= 1
    /\ Len(CompletionCalls(r)) <= 1
    /\ Len(LookupCalls(r)) <= Len(fetched[r])
    /\ (Len(PostCalls(r)) = 1 /\ PostCalls(r)[1].result = "throw") => pc[r] = "done"

C18_Witness ==
  \E r \in Runs :
    /\ Len(PostCalls(r)) = 1
    /\ PostCalls(r)[1].result = "throw"
    /\ Len(CompletionCalls(r)) = 1
    /\ pc[r] = "done"

\* C15: the message that triggered a run, when the fetched window holds it,
\* does not appear as an entry of the transcript sent to the model.
C15_TriggerLeftOut ==
  \A r \in Runs : \A i \in 1..Len(CompletionCalls(r)) :
    LET sent == SentTranscript(CompletionCalls(r)[i])
    IN \A j \in 1..Len(fetched[r]) :
         fetched[r][j] = TriggerMessage(r)
           => \A k \in 1..Len(sent) : ~AppearsAs(fetched[r][j], sent[k])

\* C19: when every awaited call eventually returns or fails, a run that has
\* started eventually ends, whatever the outcomes of its calls.
C19_RunEnds == \A r \in Runs : (pc[r] # "idle") ~> (pc[r] = "done")

\* a run that ended after a failed lookup and a failed post
C19_Witness ==
  \E r \in Runs :
    /\ pc[r] = "done"
    /\ Len(LookupCalls(r)) >= 1
    /\ LookupCalls(r)[Len(LookupCalls(r))].result = "throw"
    /\ Len(PostCalls(r)) = 1
    /\ PostCalls(r)[1].result = "throw"

\* the lookups of run r are over and each gave a name
LookupsDone(r) ==
  /\ Len(fetched[r]) >= 1
  /\ Len(LookupCalls(r)) = Len(fetched[r])
  /\ \A i \in 1..Len(LookupCalls(r)) : LookupCalls(r)[i].result = "ok"

\* the question of run r is present: defined and not empty
QuestionPresent(r) == intent[r].question \notin {Undefined, <<>>}

\* C20: when at least one message was fetched, the lookups gave their names
\* and every fetched message is filtered, the model is invoked exactly once,
\* with the system prompt alone (then the question entry when a question is
\* present); once the run has ended there is exactly one post, carrying the
\* text made of the model's answer. No run that fetched a message ends silently.
C20_AllFilteredStillSummarizes ==
  \A r \in Runs :
    /\ (LookupsDone(r) /\ \A j \in 1..Len(fetched[r]) : Filtered(r, fetched[r][j]))
         => /\ Len(CompletionCalls(r)) = 1
            /\ CompletionCalls(r)[1].args.messages =
                 <<SystemPrompt>> \o (IF QuestionPresent(r) THEN <<QuestionEntry(intent[r].question)>> ELSE <<>>)
            /\ pc[r] = "done" =>
                 /\ Len(PostCalls(r)) = 1
                 /\ PostCalls(r)[1].args.text = CompletionText(CompletionCalls(r)[1].result)
                 /\ PostCalls(r)[1].args.channel = event[r].channel
    /\ (Len(fetched[r]) >= 1 /\ pc[r] = "done") => Len(PostCalls(r)) = 1

\* a run in which a bot-named speaker's message was the whole window has ended
\* with a post of the model's answer
C20_Witness ==
  \E r \in Runs :
    /\ pc[r] = "done"
    /\ LookupsDone(r)
    /\ \A j \in 1..Len(fetched[r]) : Filtered(r, fetched[r][j])
    /\ \E j \in 1..Len(fetched[r]) : ~StartsWith(fetched[r][j].text, CommandPrefix)
    /\ QuestionPresent(r)
    /\ Len(PostCalls(r)) = 1
    /\ PostCalls(r)[1].args.text = ModelOutput

====
